---- MODULE Spec2Model ----
(***************************************************************************)
(* The versioned-record workflow of the meeting assistant: the controller  *)
(* component MeetingAssistant (three source variants), the service client  *)
(* geminiService, the gemini-proxy edge function and the record store.     *)
(*                                                                         *)
(* Asynchronous handlers are cut at their awaits: an operation is started  *)
(* (the synchronous prefix, which fixes the values its closure captured),  *)
(* answered (the gateway call returns and the store inserts are applied)   *)
(* and finished (the state updates after the last await).  loadRecordData  *)
(* is cut the same way: its synchronous prefix belongs to the action that  *)
(* triggered the effect, its two selects are delivered by LoadTV / LoadMV. *)
(***************************************************************************)
EXTENDS Integers, Sequences, FiniteSets, TLC

(* ------------------------------- bounds -------------------------------- *)
MaxRecords == 2
MaxWrites == 2
MaxEdits == 2
MaxStoreFailures == 1
MaxOvertakes == 1
MaxDrafts == 1
MaxEvents == 2

(* ------------------------------ vocabulary ----------------------------- *)
\* The three variants of the controller component found in the sources.
Variants == {"v1", "v2", "v3"}

\* Two of the five module identifiers; the modules are handled uniformly.
Modules == {"A", "B"}

NoRecord == 0
RecordIds == 1..MaxRecords

RawTexts == {"", " ", "t"}
MetaTexts == {"", "m"}
ChatTexts == {"", " ", "q"}

\* The text the completion service returns on its n-th call when it answers
\* with real content.
GatewayTexts == <<"g1", "g2", "g3", "g4", "g5", "g6">>

\* String.prototype.trim on the strings of the model.
Trim(s) == IF s = " " THEN "" ELSE s

\* JavaScript truthiness of a string.
Truthy(s) == s # ""

\* !s?.trim()
IsBlank(s) == ~Truthy(Trim(s))

RECURSIVE SelectSeqBy(_, _)
\* Array.prototype.filter on a sequence of rows, by record id.
SelectSeqBy(rows, rec) ==
    IF rows = <<>> THEN <<>>
    ELSE IF Head(rows).rec = rec
         THEN <<Head(rows)>> \o SelectSeqBy(Tail(rows), rec)
         ELSE SelectSeqBy(Tail(rows), rec)

RECURSIVE InsertByNum(_, _)
\* Stable insertion of a row into a list ordered by ascending num.
InsertByNum(sorted, row) ==
    IF sorted = <<>> THEN <<row>>
    ELSE IF Head(sorted).num <= row.num
         THEN <<Head(sorted)>> \o InsertByNum(Tail(sorted), row)
         ELSE <<row>> \o sorted

RECURSIVE SortByNum(_)
\* ORDER BY version_number ASC (rows of equal number keep insertion order).
SortByNum(rows) ==
    IF rows = <<>> THEN <<>>
    ELSE InsertByNum(SortByNum(SubSeq(rows, 1, Len(rows) - 1)), rows[Len(rows)])

VARIABLES
    variant,                \* which controller variant runs
    direct,                 \* TRUE: handlers are also called directly, past the controls
    dbRecords,              \* meeting_records: id -> [raw, meta]
    dbTV,                   \* transcript_versions rows, in insertion order
    dbMV,                   \* module_versions rows with their chat_messages
    nextRecId, nextMvId,    \* generated identifiers
    records,                \* useState records: id -> [raw, meta]
    activeRecordId, step, isLoading, errorMsg,
    localTranscript, localMetadata,
    transcriptVersions, activeTranscriptVersion,
    moduleVersionsMap, activeModuleVersion,
    chatInputs,
    saveTimeout,            \* saveTimeoutRef: the pending debounced write
    op,                     \* the operation in flight and its closure
    loads,                  \* loadRecordData calls still awaiting a select
    overtakes,              \* steps taken since a select has been awaited
    request,                \* the messages the proxy or the service hands to the gateway
    peer,                   \* a second session of the controller: its record, list length, position
    analysed,               \* history: module version id -> the transcript its analysis sent
    nWrites,                \* operations in flight or past their first insert
    nEdits, nStoreFailures

storeVars == <<dbRecords, dbTV, dbMV, nextRecId, nextMvId>>
bufferVars == <<localTranscript, localMetadata>>
tvVars == <<transcriptVersions, activeTranscriptVersion>>
mvVars == <<moduleVersionsMap, activeModuleVersion>>
\* Not written by the controller's actions (analysed: by analysisAnswered alone).
fixedVars == <<variant, direct, request, peer, analysed>>

vars == <<variant, direct, dbRecords, dbTV, dbMV, nextRecId, nextMvId, records,
          activeRecordId, step, isLoading, errorMsg, localTranscript,
          localMetadata, transcriptVersions, activeTranscriptVersion,
          moduleVersionsMap, activeModuleVersion, chatInputs, saveTimeout, op,
          loads, overtakes, request, peer, analysed, nWrites,
          nEdits, nStoreFailures>>

(* ------------------------------- budgets ------------------------------- *)
\* Operations that write, edits of the record fields, failing inserts and
\* deleted records are counted, each against its own bound and together
\* against MaxEvents.
Deleted == (nextRecId - 1) - Cardinality(DOMAIN dbRecords)

Events == nWrites + nEdits + nStoreFailures + Deleted

MayWrite == nWrites < MaxWrites /\ Events < MaxEvents

MayEdit == nEdits < MaxEdits /\ Events < MaxEvents

MayFail(n) == nStoreFailures < MaxStoreFailures /\ Events + n < MaxEvents

MayDelete == Events < MaxEvents

(* ------------------------------ the store ------------------------------ *)
EmptyRecordRow == [raw |-> "", meta |-> ""]

\* list transcript versions for record, ascending by version number
StoreTVs(rec) == SortByNum(SelectSeqBy(dbTV, rec))

\* list module versions (with their ordered chat messages) for record
StoreMVs(rec) == SortByNum(SelectSeqBy(dbMV, rec))

RECURSIVE SelectSeqByMod(_, _)
SelectSeqByMod(rows, m) ==
    IF rows = <<>> THEN <<>>
    ELSE IF Head(rows).mod = m
         THEN <<Head(rows)>> \o SelectSeqByMod(Tail(rows), m)
         ELSE SelectSeqByMod(Tail(rows), m)

\* A mutation of DropRecord: a foreign key without the cascade.
KeepRecordRows(rows, rec) == rows

RECURSIVE DropRecord(_, _)
\* ON DELETE CASCADE: the rows of a deleted record go with it.
DropRecord(rows, rec) ==
    IF rows = <<>> THEN <<>>
    ELSE IF Head(rows).rec = rec
         THEN DropRecord(Tail(rows), rec)
         ELSE <<Head(rows)>> \o DropRecord(Tail(rows), rec)

NoOp == [kind |-> "none", pc |-> "idle", rec |-> NoRecord, len |-> 0,
         transcript |-> "", mod |-> "A", verNum |-> 0, mvId |-> 0,
         msgs |-> <<>>, input |-> "", result |-> "", stored |-> FALSE]

NoSave == [rec |-> NoRecord, field |-> "none", value |-> ""]

EmptyModuleMap == [m \in Modules |-> <<>>]
NoActiveModule == [m \in Modules |-> 0]
NoChatInputs == [m \in Modules |-> ""]

\* A store left by earlier sessions: record 1 was corrected once and analysed
\* once with module A, record 2 holds a raw transcript only.
\* The second session before it has selected a record.
NoPeer == [rec |-> NoRecord, len |-> 0, pc |-> "idle"]

SeededRecords == (1 :> [raw |-> "t", meta |-> ""]) @@ (2 :> [raw |-> "t", meta |-> ""])
SeededTV == <<[rec |-> 1, num |-> 1, text |-> "c0"]>>
\* The seeded module version was analysed from the seeded transcript version.
SeededAnalysed == (1 :> "c0")

SeededMV == <<[id |-> 1, rec |-> 1, mod |-> "A", num |-> 1,
               msgs |-> <<[role |-> "model", text |-> "a0"]>>]>>

InitExceptOp(V, H) ==
    /\ variant \in V
    /\ direct \in H
    /\ \/ /\ dbRecords = <<>>
          /\ dbTV = <<>>
          /\ dbMV = <<>>
          /\ analysed = <<>>
          /\ nextRecId = 1
          /\ nextMvId = 1
       \/ /\ dbRecords = SeededRecords
          /\ dbTV = SeededTV
          /\ dbMV = SeededMV
          /\ analysed = SeededAnalysed
          /\ nextRecId = 3
          /\ nextMvId = 2
    /\ records = dbRecords
    /\ activeRecordId = NoRecord
    /\ step = 1
    /\ isLoading = FALSE
    /\ errorMsg = ""
    /\ localTranscript = ""
    /\ localMetadata = ""
    /\ transcriptVersions = <<>>
    /\ activeTranscriptVersion = 1
    /\ moduleVersionsMap = EmptyModuleMap
    /\ activeModuleVersion = NoActiveModule
    /\ chatInputs = NoChatInputs
    /\ saveTimeout = NoSave
    /\ loads = {}
    /\ overtakes = 0
    /\ request = <<>>
    /\ peer = NoPeer
    /\ nWrites = 0
    /\ nEdits = 0
    /\ nStoreFailures = 0

InitWith(V, H) == InitExceptOp(V, H) /\ op = NoOp

(* ------------------- gemini-proxy and geminiService -------------------- *)
SystemMessage(prompt) == [role |-> "system", content |-> <<prompt>>]

\* The correction prompt: metadata fields and the raw transcript interpolated.
CorrectionUserMessage(transcript, meta) ==
    [role |-> "user",
     content |-> <<"correctionTask", IF Truthy(meta) THEN meta ELSE "notProvided",
                   "rawTranscript", transcript>>]

ModuleTaskMap ==
    [m \in {"A", "B", "C", "D", "E"} |->
        CASE m = "A" -> "taskA" [] m = "B" -> "taskB" [] m = "C" -> "taskC"
          [] m = "D" -> "taskD" [] m = "E" -> "taskE"]

\* moduleId ? (moduleTaskMap[moduleId] || moduleName || default) : (moduleName || default)
ModuleTask(moduleId, moduleName) ==
    IF Truthy(moduleId) /\ moduleId \in DOMAIN ModuleTaskMap
    THEN ModuleTaskMap[moduleId]
    ELSE IF Truthy(moduleName) THEN moduleName ELSE "defaultTask"

\* The user message that carries the corrected transcript and the module task.
SeedMessage(transcript, moduleTask) ==
    [role |-> "user",
     content |-> <<"seedHead", transcript, "seedTask", moduleTask, "seedTail">>]

\* msg.role === 'user' ? 'user' : 'assistant'
GatewayRole(role) == IF role = "user" THEN "user" ELSE "assistant"

ReplayMessage(msg) == [role |-> GatewayRole(msg.role), content |-> <<msg.text>>]

\* A mutation of ProxySeedNeeded: the seed is never prepended to a history.
ProxySeedNeededNever(history) == FALSE

\* history[0]?.role === 'model'
ProxySeedNeeded(history) == Len(history) > 0 /\ history[1].role = "model"

\* The message list the proxy builds for analyzeTranscript.
AssembleMessages(transcript, moduleId, moduleName, history) ==
    LET task == ModuleTask(moduleId, moduleName) IN
    IF Len(history) = 0
    THEN <<SeedMessage(transcript, task)>>
    ELSE (IF ProxySeedNeeded(history) THEN <<SeedMessage(transcript, task)>> ELSE <<>>)
         \o [i \in 1..Len(history) |-> ReplayMessage(history[i])]

\* callGatewayWithHistory: the system message, then the messages.
AnalysisRequest(transcript, moduleId, moduleName, history) ==
    <<SystemMessage("MODULE_SYSTEM_PROMPT")>>
    \o AssembleMessages(transcript, moduleId, moduleName, history)

\* callGateway for a correction: the system message and one user message.
CorrectionRequest(transcript, meta) ==
    <<SystemMessage("CORRECTION_SYSTEM_PROMPT"), CorrectionUserMessage(transcript, meta)>>

\* What the completion service does with a request.
GatewayOutcomes == {"fail", "empty", "blank", "ok"}

\* callGateway / callGatewayWithHistory: throws on a failed fetch and on an
\* empty completion, returns the text otherwise.
CallGateway(outcome, n) ==
    LET text == CASE outcome = "ok" -> GatewayTexts[n]
                  [] outcome = "blank" -> " "
                  [] OTHER -> ""
    IN IF outcome = "fail" \/ ~Truthy(text)
       THEN [ok |-> FALSE, text |-> ""]
       ELSE [ok |-> TRUE, text |-> text]

\* The Deno.serve handler: 400 on a blank transcript, else the gateway call.
ProxyHandler(transcript, outcome, n) ==
    IF ~Truthy(transcript) \/ Trim(transcript) = ""
    THEN [ok |-> FALSE, text |-> "", gateway |-> FALSE]
    ELSE LET r == CallGateway(outcome, n)
         IN [ok |-> r.ok, text |-> r.text, gateway |-> TRUE]

\* geminiService.correctTranscript / analyzeTranscript over callProxy.  The
\* first controller variant uses the service without guards, the later ones
\* the service that rejects a blank transcript and a blank reply.
ServiceCall(v, transcript, outcome, n) ==
    IF v # "v1" /\ IsBlank(transcript)
    THEN [ok |-> FALSE, text |-> "", proxy |-> FALSE, gateway |-> FALSE]
    ELSE LET p == ProxyHandler(transcript, outcome, n)
         IN [ok |-> p.ok /\ (v = "v1" \/ Truthy(p.text)), text |-> p.text,
             proxy |-> TRUE, gateway |-> p.gateway]

(* --------------------------- derived values ---------------------------- *)
\* records.find(r => r.id === activeRecordId) || null, as a test
ActiveRecordShown == activeRecordId \in DOMAIN records

\* The loading overlay of the third variant covers the page and takes the
\* pointer events; the overlays of the first two are pointer-events-none.
OverlayBlocks == variant = "v3" /\ isLoading

\* The component tree is gone after an exception in a state updater.
Crashed == errorMsg = "crashed"

CanClick == ~OverlayBlocks /\ ~Crashed

\* transcriptVersions.find(v => v.versionNumber === activeTranscriptVersion)
FindTV(tvs, num) ==
    IF \E i \in 1..Len(tvs) : tvs[i].num = num
    THEN LET i == CHOOSE j \in 1..Len(tvs) :
                    tvs[j].num = num /\ \A k \in 1..(j - 1) : tvs[k].num # num
         IN <<tvs[i]>>
    ELSE <<>>

currentTranscriptVersion == FindTV(transcriptVersions, activeTranscriptVersion)

\* activeModuleVersion[moduleId] || 1
ActiveVerNum(m) == IF activeModuleVersion[m] = 0 THEN 1 ELSE activeModuleVersion[m]

\* versions.find(v => v.versionNumber === activeVerNum)
FindMV(versions, num) ==
    IF \E i \in 1..Len(versions) : versions[i].num = num
    THEN LET i == CHOOSE j \in 1..Len(versions) :
                    versions[j].num = num /\ \A k \in 1..(j - 1) : versions[k].num # num
         IN <<versions[i]>>
    ELSE <<>>

\* loadRecords: the records of the store replace the in-memory list.
StoreSnapshot(db) == db

\* records newest first; the first of them
NewestOf(ids) == CHOOSE r \in ids : \A q \in ids : q <= r

\* The selects of loadRecordData are answered within MaxOvertakes further
\* steps of the user, the timer or the service.
MayStep == loads = {} \/ overtakes < MaxOvertakes

StepCounted == overtakes' = IF loads = {} \/ loads' = {} THEN 0 ELSE overtakes + 1

AnswerCounted == overtakes' = IF loads' = {} THEN 0 ELSE overtakes

(* ---------------------------- loadRecordData --------------------------- *)
\* The effect on [activeRecordId, loadRecordData]: when it is triggered and the
\* record is in the list, the synchronous prefix of loadRecordData fills the
\* edit buffers and the first select is awaited.  lt and lm are the buffer
\* values the triggering handler leaves when the effect does not run.
LoadEffect(triggered, act, recs, lt, lm) ==
    IF triggered /\ act # NoRecord /\ act \in DOMAIN recs
    THEN /\ localMetadata' = recs[act].meta
         /\ localTranscript' = recs[act].raw
         /\ loads' = loads \cup {<<act, "tv">>}
    ELSE /\ localMetadata' = lm
         /\ localTranscript' = lt
         /\ loads' = loads

\* A load that makes the first version of the list the active one.
FirstNumber(rows) == IF Len(rows) > 0 THEN rows[1].num ELSE 1

\* tvs.length > 0 ? tvs[tvs.length - 1].versionNumber : 1
LatestNumber(rows) == IF Len(rows) > 0 THEN rows[Len(rows)].num ELSE 1

\* The first select of loadRecordData is answered.
LoadTV(r) ==
    /\ <<r, "tv">> \in loads
    /\ ~Crashed
    /\ LET rows == StoreTVs(r)
           tvs == [i \in 1..Len(rows) |-> [num |-> rows[i].num, text |-> rows[i].text]]
       IN /\ transcriptVersions' = tvs
          /\ activeTranscriptVersion' = LatestNumber(tvs)
    /\ loads' = (loads \ {<<r, "tv">>}) \cup {<<r, "mv">>}
    /\ UNCHANGED <<fixedVars, storeVars, records, activeRecordId, step, isLoading,
                   errorMsg, bufferVars, mvVars, chatInputs, saveTimeout, op,
                   nWrites, nEdits, nStoreFailures>>
    /\ AnswerCounted

\* newMap[mv.module_id] of loadRecordData
LoadedVersions(rows, m) ==
    LET mine == SelectSeqByMod(rows, m)
    IN [i \in 1..Len(mine) |-> [id |-> mine[i].id, num |-> mine[i].num, msgs |-> mine[i].msgs]]

\* The second select of loadRecordData is answered.
LoadMV(r) ==
    /\ <<r, "mv">> \in loads
    /\ ~Crashed
    /\ LET rows == StoreMVs(r)
           newMap == [m \in Modules |-> LoadedVersions(rows, m)]
       IN /\ moduleVersionsMap' = newMap
          /\ activeModuleVersion' =
                [m \in Modules |-> IF Len(newMap[m]) > 0
                                   THEN newMap[m][Len(newMap[m])].num ELSE 0]
    /\ loads' = loads \ {<<r, "mv">>}
    /\ UNCHANGED <<fixedVars, storeVars, records, activeRecordId, step, isLoading,
                   errorMsg, bufferVars, tvVars, chatInputs, saveTimeout, op,
                   nWrites, nEdits, nStoreFailures>>
    /\ AnswerCounted

(* --------------------------------- CRUD -------------------------------- *)
createNewRecord ==
    /\ MayStep
    /\ CanClick
    /\ nextRecId <= MaxRecords
    /\ LET id == nextRecId
           db == (id :> EmptyRecordRow) @@ dbRecords
       IN /\ dbRecords' = db
          /\ nextRecId' = id + 1
          /\ records' = StoreSnapshot(db)
          /\ activeRecordId' = id
          /\ LoadEffect(TRUE, id, StoreSnapshot(db), localTranscript, localMetadata)
    /\ step' = 1
    /\ transcriptVersions' = <<>>
    /\ moduleVersionsMap' = EmptyModuleMap
    /\ activeModuleVersion' = NoActiveModule
    /\ errorMsg' = ""
    /\ UNCHANGED <<fixedVars, dbTV, dbMV, nextMvId, isLoading, activeTranscriptVersion,
                   chatInputs, saveTimeout, op, nWrites, nEdits, nStoreFailures>>
    /\ StepCounted

\* The step after a click on a record of the list: setStep(1).
SelectStep(s) == 1

\* onClick of a record of the list
selectRecord(r) ==
    /\ MayStep
    /\ CanClick
    /\ r \in DOMAIN records
    /\ activeRecordId' = r
    /\ step' = SelectStep(step)
    /\ errorMsg' = ""
    /\ LoadEffect(r # activeRecordId, r, records, localTranscript, localMetadata)
    /\ UNCHANGED <<fixedVars, storeVars, records, isLoading, tvVars, mvVars,
                   chatInputs, saveTimeout, op, nWrites, nEdits, nStoreFailures>>
    /\ StepCounted

\* The step after deleteRecord: the handler does not touch it.
DeleteStep(s) == s

deleteRecord(id) ==
    /\ MayStep
    /\ CanClick
    /\ MayDelete
    /\ id \in DOMAIN records
    /\ LET db == [r \in (DOMAIN dbRecords) \ {id} |-> dbRecords[r]]
           remaining == (DOMAIN records) \ {id}
           act == IF activeRecordId = id
                  THEN (IF remaining # {} THEN NewestOf(remaining) ELSE NoRecord)
                  ELSE activeRecordId
       IN /\ dbRecords' = db
          /\ dbTV' = DropRecord(dbTV, id)
          /\ dbMV' = DropRecord(dbMV, id)
          /\ records' = StoreSnapshot(db)
          /\ activeRecordId' = act
          /\ LoadEffect(TRUE, act, StoreSnapshot(db), localTranscript, localMetadata)
    /\ step' = DeleteStep(step)
    /\ UNCHANGED <<fixedVars, nextRecId, nextMvId, isLoading, errorMsg, tvVars, mvVars,
                   chatInputs, saveTimeout, op, nWrites, nEdits, nStoreFailures>>
    /\ StepCounted

\* renameRecord with a non-blank title: the title is written and the list is
\* read again (titles are not part of the model; the reload is).
renameRecord(id) ==
    /\ MayStep
    /\ CanClick
    /\ id \in DOMAIN records
    /\ records' = StoreSnapshot(dbRecords)
    /\ LoadEffect(TRUE, activeRecordId, StoreSnapshot(dbRecords), localTranscript, localMetadata)
    /\ UNCHANGED <<fixedVars, storeVars, activeRecordId, step, isLoading, errorMsg,
                   tvVars, mvVars, chatInputs, saveTimeout, op, nWrites, nEdits,
                   nStoreFailures>>
    /\ StepCounted

(* ------------------------------ navigation ----------------------------- *)
\* disabled={(s === 2 || s === 3) && transcriptVersions.length === 0}
StepTabDisabled(s, tvs) == (s = 2 \/ s = 3) /\ Len(tvs) = 0

\* The step tabs of the header.
setStepTab(s) ==
    /\ MayStep
    /\ CanClick
    /\ ActiveRecordShown
    /\ ~StepTabDisabled(s, transcriptVersions)
    /\ step' = s
    /\ UNCHANGED <<fixedVars, storeVars, records, activeRecordId, isLoading, errorMsg,
                   bufferVars, tvVars, mvVars, chatInputs, saveTimeout, op, loads,
                   nWrites, nEdits, nStoreFailures>>
    /\ StepCounted

\* The 'enter insight matrix' button of the correction panel: it carries no
\* disabled attribute.
enterInsightMatrix ==
    /\ MayStep
    /\ CanClick
    /\ ActiveRecordShown
    /\ step = 2
    /\ step' = 3
    /\ UNCHANGED <<fixedVars, storeVars, records, activeRecordId, isLoading, errorMsg,
                   bufferVars, tvVars, mvVars, chatInputs, saveTimeout, op, loads,
                   nWrites, nEdits, nStoreFailures>>
    /\ StepCounted

\* The values a VersionPaginator can pass to onChange: a numbered button, or
\* the previous / next arrows unless disabled.
PaginatorTargets(total, current) ==
    IF total <= 1 THEN {}
    ELSE (1..total) \cup (IF current <= 1 THEN {} ELSE {current - 1})
                    \cup (IF current >= total THEN {} ELSE {current + 1})

\* The transcript-version paginator (correction panel; insight panel when the
\* record has more than one version).
setActiveTranscriptVersion(v) ==
    /\ MayStep
    /\ CanClick
    /\ ActiveRecordShown
    /\ step \in {2, 3}
    /\ v \in PaginatorTargets(Len(transcriptVersions), activeTranscriptVersion)
    /\ activeTranscriptVersion' = v
    /\ UNCHANGED <<fixedVars, storeVars, records, activeRecordId, step, isLoading,
                   errorMsg, bufferVars, transcriptVersions, mvVars, chatInputs,
                   saveTimeout, op, loads, nWrites, nEdits, nStoreFailures>>
    /\ StepCounted

\* The module-version paginator of a module that has results.
setActiveModuleVersion(m, v) ==
    /\ MayStep
    /\ CanClick
    /\ ActiveRecordShown
    /\ step = 3
    /\ v \in PaginatorTargets(Len(moduleVersionsMap[m]), ActiveVerNum(m))
    /\ activeModuleVersion' = [activeModuleVersion EXCEPT ![m] = v]
    /\ UNCHANGED <<fixedVars, storeVars, records, activeRecordId, step, isLoading,
                   errorMsg, bufferVars, tvVars, moduleVersionsMap, chatInputs,
                   saveTimeout, op, loads, nWrites, nEdits, nStoreFailures>>
    /\ StepCounted

\* Typing into the chat input of a module that has results.  Under the
\* blocking overlay only the input that sent the running chat keeps the focus.
CanType(m) == CanClick \/ (op.kind = "chat" /\ op.mod = m)

setChatInput(m, v) ==
    /\ MayStep
    /\ CanType(m)
    /\ ActiveRecordShown
    /\ step = 3
    /\ Len(moduleVersionsMap[m]) > 0
    /\ v \in ChatTexts
    /\ v # chatInputs[m]
    /\ chatInputs' = [chatInputs EXCEPT ![m] = v]
    /\ Cardinality({x \in Modules : chatInputs'[x] # ""}) <= MaxDrafts
    /\ UNCHANGED <<fixedVars, storeVars, records, activeRecordId, step, isLoading,
                   errorMsg, bufferVars, tvVars, mvVars, saveTimeout, op, loads,
                   nWrites, nEdits, nStoreFailures>>
    /\ StepCounted

(* ------------------------------ auto-save ------------------------------ *)
\* supabase.from('meeting_records').update(fields).eq('id', rec)
WriteRecordField(db, rec, field, value) ==
    IF rec \in DOMAIN db
    THEN [db EXCEPT ![rec] = IF field = "raw" THEN [@ EXCEPT !.raw = value]
                                              ELSE [@ EXCEPT !.meta = value]]
    ELSE db

\* prev.map(r => r.id === activeRecordId ? { ...r, [field]: value } : r)
PatchRecords(recs, rec, field, value) == WriteRecordField(recs, rec, field, value)

\* The common part of handleTranscriptChange and handleMetadataChange: the
\* record list is patched (which re-runs the load effect), and the write is
\* scheduled behind the 800 ms timer, or issued at once by the first variant.
EditField(field, value) ==
    /\ MayStep
    /\ CanClick
    /\ ActiveRecordShown
    /\ step = 1
    /\ MayEdit
    /\ nEdits' = nEdits + 1
    /\ LET recs == PatchRecords(records, activeRecordId, field, value)
       IN /\ records' = recs
          /\ LoadEffect(TRUE, activeRecordId, recs,
                        IF field = "raw" THEN value ELSE localTranscript,
                        IF field = "meta" THEN value ELSE localMetadata)
    /\ IF variant = "v1"
       THEN /\ dbRecords' = WriteRecordField(dbRecords, activeRecordId, field, value)
            /\ saveTimeout' = saveTimeout
       ELSE /\ dbRecords' = dbRecords
            /\ saveTimeout' = [rec |-> activeRecordId, field |-> field, value |-> value]
    /\ UNCHANGED <<nWrites, fixedVars, dbTV, dbMV, nextRecId, nextMvId, activeRecordId, step,
                   isLoading, errorMsg, tvVars, mvVars, chatInputs, op, nStoreFailures>>
    /\ StepCounted

handleTranscriptChange(value) ==
    /\ value \in RawTexts
    /\ value # localTranscript
    /\ EditField("raw", value)

handleMetadataChange(value) ==
    /\ value \in MetaTexts
    /\ value # localMetadata
    /\ EditField("meta", value)

\* The debounce timer fires: saveRecordFields writes the scheduled fields to
\* the record that was active when the edit was made.
saveTimerFires ==
    /\ MayStep
    /\ saveTimeout # NoSave
    /\ dbRecords' = WriteRecordField(dbRecords, saveTimeout.rec, saveTimeout.field,
                                     saveTimeout.value)
    /\ saveTimeout' = NoSave
    /\ UNCHANGED <<fixedVars, dbTV, dbMV, nextRecId, nextMvId, records, activeRecordId,
                   step, isLoading, errorMsg, bufferVars, tvVars, mvVars, chatInputs,
                   op, loads, nWrites, nEdits, nStoreFailures>>
    /\ StepCounted

(* ------------------------- operations: shared -------------------------- *)
\* A handler called directly (as a test of the controller calls it), one
\* operation at a time.
DirectCall == direct /\ ~isLoading /\ ~Crashed

\* The controller's test of a reply: the first variant takes whatever the
\* service returns, the later ones reject a blank text.
ReplyAccepted(v, r) == r.ok /\ (v = "v1" \/ ~IsBlank(r.text))

\* The rows of a store insert need their parent row.
RecordInStore(rec) == rec # NoRecord /\ rec \in DOMAIN dbRecords

ModuleVersionInStore(id) == \E i \in 1..Len(dbMV) : dbMV[i].id = id

\* An insert either is applied or fails; a failure is counted.
InsertOutcomes(parentPresent, n) ==
    IF parentPresent
    THEN {TRUE} \cup (IF MayFail(n) THEN {FALSE} ELSE {})
    ELSE {FALSE}

\* insert chat message(module version id, role, content)
AppendMessage(rows, id, msg) ==
    [i \in 1..Len(rows) |->
        IF rows[i].id = id THEN [rows[i] EXCEPT !.msgs = Append(@, msg)] ELSE rows[i]]

\* setErrorMsg of the later variants; the first variant shows an alert.
ErrorShown(v, msg, old) == IF v = "v1" THEN old ELSE msg

\* The reply of the gateway to the call in flight is a fresh text.
ReplyIndex == nWrites

\* A mutation of CorrectionButtonDisabled: the buttons stay enabled while an
\* operation is loading.
CorrectionButtonDisabledIgnoringLoading(v, loading, transcript) ==
    IF v = "v1" THEN ~Truthy(transcript) ELSE IsBlank(transcript)

\* disabled of the two 'run correction' buttons
CorrectionButtonDisabled(v, loading, transcript) ==
    loading \/ (IF v = "v1" THEN ~Truthy(transcript) ELSE IsBlank(transcript))

\* The fail-fast guard of runCorrection.
CorrectionRejects(v, act, transcript) ==
    act = NoRecord \/ (IF v = "v1" THEN ~Truthy(transcript) ELSE IsBlank(transcript))

\* transcriptVersions.length + 1
NextVersionNumber(len) == len + 1

CorrectionInvocable ==
    \/ /\ CanClick /\ ActiveRecordShown /\ step \in {1, 2}
       /\ ~CorrectionButtonDisabled(variant, isLoading, localTranscript)
    \/ DirectCall

\* runCorrection up to its first await.
runCorrection ==
    /\ MayStep
    /\ CorrectionInvocable
    /\ IF CorrectionRejects(variant, activeRecordId, localTranscript)
       THEN /\ errorMsg' = ErrorShown(variant, "needTranscript", errorMsg)
            /\ UNCHANGED <<isLoading, op, nWrites>>
       ELSE /\ MayWrite
            /\ nWrites' = nWrites + 1
            /\ errorMsg' = ErrorShown(variant, "", errorMsg)
            /\ isLoading' = TRUE
            /\ op' = [NoOp EXCEPT !.kind = "corr", !.pc = "called",
                                  !.rec = activeRecordId,
                                  !.transcript = localTranscript,
                                  !.input = localMetadata,
                                  !.len = Len(transcriptVersions)]
    /\ UNCHANGED <<fixedVars, storeVars, records, activeRecordId, step, bufferVars,
                   tvVars, mvVars, chatInputs, saveTimeout, loads, nEdits,
                   nStoreFailures>>
    /\ StepCounted

\* The service call of runCorrection returns and, on an accepted text, the
\* version row is inserted.
correctionAnswered(outcome, inserted) ==
    /\ MayStep
    /\ op.kind = "corr" /\ op.pc = "called"
    /\ LET r == ServiceCall(variant, op.transcript, outcome, ReplyIndex)
       IN /\ nWrites' = nWrites - (IF ReplyAccepted(variant, r) THEN 0 ELSE 1)
          /\ IF ReplyAccepted(variant, r)
             THEN /\ inserted \in InsertOutcomes(RecordInStore(op.rec), 0)
                  /\ dbTV' = IF inserted
                             THEN Append(dbTV, [rec |-> op.rec,
                                                num |-> NextVersionNumber(op.len),
                                                text |-> r.text])
                             ELSE dbTV
                  /\ nStoreFailures' = nStoreFailures
                        + (IF ~inserted /\ RecordInStore(op.rec) THEN 1 ELSE 0)
                  /\ op' = [op EXCEPT !.pc = "stored", !.result = r.text,
                                      !.stored = inserted]
                  /\ UNCHANGED <<isLoading, errorMsg>>
             ELSE /\ inserted = FALSE
                  /\ errorMsg' = ErrorShown(variant, "corrFailed", errorMsg)
                  /\ isLoading' = FALSE
                  /\ op' = NoOp
                  /\ UNCHANGED <<dbTV, nStoreFailures>>
    /\ UNCHANGED <<fixedVars, dbRecords, dbMV, nextRecId, nextMvId, records,
                   activeRecordId, step, bufferVars, tvVars, mvVars, chatInputs,
                   saveTimeout, loads, nEdits>>
    /\ StepCounted

\* The step after a correction run whose text was accepted: setStep(2), also
\* when the insert returned no row.
StepAfterCorrection(s, stored) == 2

\* runCorrection after the insert: the state updates and the finally block.
correctionFinished ==
    /\ MayStep
    /\ op.kind = "corr" /\ op.pc = "stored"
    /\ IF op.stored
       THEN /\ transcriptVersions' =
                  Append(transcriptVersions,
                         [num |-> NextVersionNumber(op.len), text |-> op.result])
            /\ activeTranscriptVersion' = NextVersionNumber(op.len)
       ELSE UNCHANGED tvVars
    /\ step' = StepAfterCorrection(step, op.stored)
    /\ isLoading' = FALSE
    /\ op' = NoOp
    /\ UNCHANGED <<fixedVars, storeVars, records, activeRecordId, errorMsg,
                   bufferVars, mvVars, chatInputs, saveTimeout, loads, nWrites, nEdits, nStoreFailures>>
    /\ StepCounted

(* -------------------------- runInitialAnalysis ------------------------- *)
\* What the service sends as moduleId and moduleName: the first variant sends
\* a modulePrompt the proxy does not read.
SentModuleId(v, m) == IF v = "v1" THEN "" ELSE m

SentModuleName(v, m) == IF v = "v1" THEN "" ELSE "moduleName"

\* The messages the proxy sends to the gateway for the call in flight.
RequestOf(o) ==
    IF o.kind = "corr" THEN CorrectionRequest(o.transcript, o.input)
    ELSE AnalysisRequest(o.transcript, SentModuleId(variant, o.mod),
                         SentModuleName(variant, o.mod),
                         IF o.kind = "chat" THEN o.msgs ELSE <<>>)

\* disabled of the analysis buttons
AnalysisButtonDisabled(loading, ctv) == loading \/ ctv = <<>>

\* A mutation of AnalysisRejects: the guard lets every call pass.
AnalysisRejectsNever(ctv) == FALSE

\* The fail-fast guard of runInitialAnalysis.
AnalysisRejects(ctv) == ctv = <<>>

\* currentTranscriptVersion.correctedTranscript (past the guards there is one)
CorrectedTranscript(ctv) == IF ctv = <<>> THEN "" ELSE ctv[1].text

\* existingVersions.length + 1
NextModuleVersionNumber(versions) == Len(versions) + 1

AnalysisInvocable ==
    \/ /\ CanClick /\ ActiveRecordShown /\ step = 3
       /\ ~AnalysisButtonDisabled(isLoading, currentTranscriptVersion)
    \/ DirectCall

\* runInitialAnalysis up to the service call.
runInitialAnalysis(m) ==
    /\ MayStep
    /\ AnalysisInvocable
    /\ IF AnalysisRejects(currentTranscriptVersion)
       THEN /\ errorMsg' = ErrorShown(variant, "needCorrection", errorMsg)
            /\ UNCHANGED <<isLoading, op, nWrites>>
       ELSE /\ MayWrite
            /\ nWrites' = nWrites + 1
            /\ errorMsg' = ErrorShown(variant, "", errorMsg)
            /\ isLoading' = TRUE
            /\ op' = [NoOp EXCEPT !.kind = "ana", !.pc = "called",
                                  !.rec = activeRecordId, !.mod = m,
                                  !.transcript = CorrectedTranscript(currentTranscriptVersion),
                                  !.verNum = NextModuleVersionNumber(moduleVersionsMap[m])]
    /\ UNCHANGED <<fixedVars, storeVars, records, activeRecordId, step, bufferVars,
                   tvVars, mvVars, chatInputs, saveTimeout, loads, nEdits,
                   nStoreFailures>>
    /\ StepCounted

\* The service call of runInitialAnalysis returns; on an accepted text the
\* module version row and then its first message are inserted.
analysisAnswered(outcome, inserted, msgInserted) ==
    /\ MayStep
    /\ op.kind = "ana" /\ op.pc = "called"
    /\ LET r == ServiceCall(variant, op.transcript, outcome, ReplyIndex)
           firstMsg == [role |-> "model", text |-> r.text]
       IN /\ nWrites' = nWrites - (IF ReplyAccepted(variant, r) THEN 0 ELSE 1)
          /\ IF ReplyAccepted(variant, r)
             THEN /\ inserted \in InsertOutcomes(RecordInStore(op.rec), 0)
                  /\ IF inserted
                     THEN /\ msgInserted \in
                               (IF MayFail(0)
                                THEN BOOLEAN ELSE {TRUE})
                          /\ dbMV' = Append(dbMV,
                                 [id |-> nextMvId, rec |-> op.rec, mod |-> op.mod,
                                  num |-> op.verNum,
                                  msgs |-> IF msgInserted THEN <<firstMsg>> ELSE <<>>])
                          /\ nextMvId' = nextMvId + 1
                          /\ nStoreFailures' = nStoreFailures + (IF msgInserted THEN 0 ELSE 1)
                          /\ op' = [op EXCEPT !.pc = "stored", !.result = r.text,
                                              !.mvId = nextMvId, !.stored = msgInserted]
                          /\ UNCHANGED <<isLoading, errorMsg>>
                     ELSE \* no row came back: the later variants throw, the
                          \* first returns; both pass through finally
                          /\ msgInserted = FALSE
                          /\ nStoreFailures' = nStoreFailures
                                + (IF RecordInStore(op.rec) THEN 1 ELSE 0)
                          /\ errorMsg' = ErrorShown(variant, "anaFailed", errorMsg)
                          /\ isLoading' = FALSE
                          /\ op' = NoOp
                          /\ UNCHANGED <<dbMV, nextMvId>>
             ELSE /\ inserted = FALSE /\ msgInserted = FALSE
                  /\ errorMsg' = ErrorShown(variant, "anaFailed", errorMsg)
                  /\ isLoading' = FALSE
                  /\ op' = NoOp
                  /\ UNCHANGED <<dbMV, nextMvId, nStoreFailures>>
    /\ analysed' = IF op'.pc = "stored" THEN (nextMvId :> op.transcript) @@ analysed
                   ELSE analysed
    /\ UNCHANGED <<variant, direct, request, peer, dbRecords, dbTV, nextRecId, records, activeRecordId,
                   step, bufferVars, tvVars, mvVars, chatInputs, saveTimeout, loads,
                   nEdits>>
    /\ StepCounted

\* A handler that put the new result into the newest version it holds.
AddToNewestVersion(versions, newModVer) ==
    IF versions = <<>> THEN <<newModVer>>
    ELSE [versions EXCEPT ![Len(versions)].msgs = @ \o newModVer.msgs]

\* [...(prev[moduleId] || []), newModVer]
AddModuleVersion(versions, newModVer) == Append(versions, newModVer)

\* runInitialAnalysis after the inserts: the state updates and the finally
\* block.
analysisFinished ==
    /\ MayStep
    /\ op.kind = "ana" /\ op.pc = "stored"
    /\ moduleVersionsMap' =
          [moduleVersionsMap EXCEPT ![op.mod] =
              AddModuleVersion(@, [id |-> op.mvId, num |-> op.verNum,
                                   msgs |-> <<[role |-> "model", text |-> op.result]>>])]
    /\ activeModuleVersion' = [activeModuleVersion EXCEPT ![op.mod] = op.verNum]
    /\ step' = 3
    /\ isLoading' = FALSE
    /\ op' = NoOp
    /\ UNCHANGED <<fixedVars, storeVars, records, activeRecordId, errorMsg,
                   bufferVars, tvVars, chatInputs, saveTimeout, loads, nWrites, nEdits, nStoreFailures>>
    /\ StepCounted

(* ----------------------------- sendModuleChat -------------------------- *)
\* A guard of sendModuleChat that does not look at isLoading.
ChatRejectsIgnoringLoading(v, input, loading, ctv, shown) ==
    IsBlank(input) \/ ctv = <<>> \/ (v = "v1" /\ ~shown)

\* The fail-fast guard of sendModuleChat; the first variant also wants the
\* active record.
ChatRejects(v, input, loading, ctv, shown) ==
    IsBlank(input) \/ loading \/ ctv = <<>> \/ (v = "v1" /\ ~shown)

\* prev[moduleId].map(v => v.versionNumber === activeVerNum ? {...v, messages} : v)
SetMessages(versions, num, msgs) ==
    [i \in 1..Len(versions) |->
        IF versions[i].num = num THEN [versions[i] EXCEPT !.msgs = msgs]
        ELSE versions[i]]

\* The chat box of a module that has results: Enter in the input, or the send
\* button.
ChatInvocable(m) ==
    \/ /\ ~Crashed /\ ActiveRecordShown /\ step = 3
       /\ Len(moduleVersionsMap[m]) > 0
       /\ CanType(m)
    \/ direct /\ ~Crashed

\* sendModuleChat up to the service call: the guards, the optimistic append
\* and the insert of the user message.
sendModuleChat(m, inserted) ==
    /\ MayStep
    /\ ChatInvocable(m)
    /\ LET input == chatInputs[m]
           activeVer == FindMV(moduleVersionsMap[m], ActiveVerNum(m))
           updatedMsgs == activeVer[1].msgs \o <<[role |-> "user", text |-> input]>>
       IN IF \/ ChatRejects(variant, input, isLoading, currentTranscriptVersion,
                            ActiveRecordShown)
             \/ activeVer = <<>>
          THEN /\ inserted = FALSE
               /\ UNCHANGED <<moduleVersionsMap, chatInputs, errorMsg, isLoading, op,
                              dbMV, nStoreFailures, nWrites>>
          ELSE /\ MayWrite
               /\ nWrites' = nWrites + 1
               /\ inserted \in InsertOutcomes(ModuleVersionInStore(activeVer[1].id), 1)
               /\ moduleVersionsMap' =
                     [moduleVersionsMap EXCEPT ![m] =
                         SetMessages(@, ActiveVerNum(m), updatedMsgs)]
               /\ chatInputs' = [chatInputs EXCEPT ![m] = ""]
               /\ errorMsg' = ErrorShown(variant, "", errorMsg)
               /\ isLoading' = TRUE
               /\ dbMV' = IF inserted
                          THEN AppendMessage(dbMV, activeVer[1].id,
                                             [role |-> "user", text |-> input])
                          ELSE dbMV
               /\ nStoreFailures' = nStoreFailures
                     + (IF ~inserted /\ ModuleVersionInStore(activeVer[1].id)
                        THEN 1 ELSE 0)
               /\ op' = [NoOp EXCEPT !.kind = "chat", !.pc = "called",
                                     !.rec = activeRecordId, !.mod = m,
                                     !.transcript = CorrectedTranscript(currentTranscriptVersion),
                                     !.verNum = ActiveVerNum(m),
                                     !.mvId = activeVer[1].id,
                                     !.msgs = updatedMsgs, !.input = input,
                                     !.stored = inserted]
    /\ UNCHANGED <<fixedVars, dbRecords, dbTV, nextRecId, nextMvId, records,
                   activeRecordId, step, bufferVars, tvVars, activeModuleVersion,
                   saveTimeout, loads, nEdits>>
    /\ StepCounted

\* The service call of sendModuleChat returns; an accepted text is inserted
\* as the model message.
chatAnswered(outcome, inserted) ==
    /\ MayStep
    /\ op.kind = "chat" /\ op.pc = "called"
    /\ LET r == ServiceCall(variant, op.transcript, outcome, ReplyIndex)
       IN IF ReplyAccepted(variant, r)
             THEN /\ inserted \in InsertOutcomes(ModuleVersionInStore(op.mvId), 0)
                  /\ dbMV' = IF inserted
                             THEN AppendMessage(dbMV, op.mvId,
                                                [role |-> "model", text |-> r.text])
                             ELSE dbMV
                  /\ nStoreFailures' = nStoreFailures
                        + (IF ~inserted /\ ModuleVersionInStore(op.mvId) THEN 1 ELSE 0)
                  /\ op' = [op EXCEPT !.pc = "stored", !.result = r.text,
                                      !.stored = op.stored /\ inserted]
                  /\ UNCHANGED <<isLoading, errorMsg>>
             ELSE /\ inserted = FALSE
                  /\ errorMsg' = ErrorShown(variant, "chatFailed", errorMsg)
                  /\ isLoading' = FALSE
                  /\ op' = NoOp
                  /\ UNCHANGED <<dbMV, nStoreFailures>>
    /\ UNCHANGED <<fixedVars, dbRecords, dbTV, nextRecId, nextMvId, records,
                   activeRecordId, step, bufferVars, tvVars, mvVars, chatInputs,
                   saveTimeout, loads, nWrites, nEdits>>
    /\ StepCounted

\* sendModuleChat after the inserts: the list of the version with the
\* captured number becomes updatedMsgs + the model message, and the finally
\* block runs.  Mapping a module the map no longer holds throws in the
\* updater and takes the component down.
chatFinished ==
    /\ MayStep
    /\ op.kind = "chat" /\ op.pc = "stored"
    /\ IF Len(moduleVersionsMap[op.mod]) = 0
       THEN /\ errorMsg' = "crashed"
            /\ UNCHANGED moduleVersionsMap
       ELSE /\ moduleVersionsMap' =
                  [moduleVersionsMap EXCEPT ![op.mod] =
                      SetMessages(@, op.verNum,
                                  op.msgs \o <<[role |-> "model", text |-> op.result]>>)]
            /\ UNCHANGED errorMsg
    /\ isLoading' = FALSE
    /\ op' = NoOp
    /\ UNCHANGED <<fixedVars, storeVars, records, activeRecordId, step, bufferVars,
                   tvVars, activeModuleVersion, chatInputs, saveTimeout, loads,
                   nWrites, nEdits, nStoreFailures>>
    /\ StepCounted

(* ------------------------------ the system ----------------------------- *)
Init == InitWith({"v3"}, {FALSE})

Next ==
    \/ createNewRecord
    \/ \E r \in RecordIds : selectRecord(r)
    \/ \E r \in RecordIds : deleteRecord(r)
    \/ \E r \in RecordIds : renameRecord(r)
    \/ \E r \in RecordIds : LoadTV(r)
    \/ \E r \in RecordIds : LoadMV(r)
    \/ \E s \in 1..3 : setStepTab(s)
    \/ enterInsightMatrix
    \/ \E v \in 1..(MaxWrites + 1) : setActiveTranscriptVersion(v)
    \/ \E m \in Modules, v \in 1..(MaxWrites + 1) : setActiveModuleVersion(m, v)
    \/ \E m \in Modules, v \in ChatTexts : setChatInput(m, v)
    \/ \E v \in RawTexts : handleTranscriptChange(v)
    \/ \E v \in MetaTexts : handleMetadataChange(v)
    \/ saveTimerFires
    \/ runCorrection
    \/ \E o \in GatewayOutcomes, b \in BOOLEAN : correctionAnswered(o, b)
    \/ correctionFinished
    \/ \E m \in Modules : runInitialAnalysis(m)
    \/ \E o \in GatewayOutcomes, b \in BOOLEAN, c \in BOOLEAN : analysisAnswered(o, b, c)
    \/ analysisFinished
    \/ \E m \in Modules, b \in BOOLEAN : sendModuleChat(m, b)
    \/ \E o \in GatewayOutcomes, b \in BOOLEAN : chatAnswered(o, b)
    \/ chatFinished

\* The latest controller, driven through its controls.
Spec == Init /\ [][Next]_vars

\* The operations of the controller alone (select a record, edit its fields,
\* run a correction, run an analysis, chat), in each of the three variants,
\* with the handlers also called directly.
InitOps == InitWith(Variants, {TRUE})

NextOps ==
    \/ \E r \in RecordIds : selectRecord(r)
    \/ \E r \in RecordIds : LoadTV(r)
    \/ \E r \in RecordIds : LoadMV(r)
    \/ \E m \in Modules, v \in ChatTexts : setChatInput(m, v)
    \/ \E v \in RawTexts : handleTranscriptChange(v)
    \/ \E v \in MetaTexts : handleMetadataChange(v)
    \/ saveTimerFires
    \/ runCorrection
    \/ \E o \in GatewayOutcomes, b \in BOOLEAN : correctionAnswered(o, b)
    \/ correctionFinished
    \/ \E m \in Modules : runInitialAnalysis(m)
    \/ \E o \in GatewayOutcomes, b \in BOOLEAN, c \in BOOLEAN : analysisAnswered(o, b, c)
    \/ analysisFinished
    \/ \E m \in Modules, b \in BOOLEAN : sendModuleChat(m, b)
    \/ \E o \in GatewayOutcomes, b \in BOOLEAN : chatAnswered(o, b)
    \/ chatFinished

SpecOps == InitOps /\ [][NextOps]_vars

(* ------------------------- a second session ---------------------------- *)
\* Another tab runs the same controller on the same store. Of its state the
\* store sees the record it has selected, the length of its version list and
\* the length its correction in flight has captured.
peerUnchanged ==
    UNCHANGED <<variant, direct, request, analysed, dbRecords, dbMV, nextRecId, nextMvId,
                records, activeRecordId, step, isLoading, errorMsg, bufferVars,
                tvVars, mvVars, chatInputs, saveTimeout, op, loads, overtakes,
                nEdits, nStoreFailures>>

\* The second session selects a record and its list of versions is answered.
peerLoadRecordData(r) ==
    /\ peer.pc = "idle"
    /\ r \in DOMAIN dbRecords
    /\ peer' = [rec |-> r, len |-> Len(StoreTVs(r)), pc |-> "idle"]
    /\ UNCHANGED <<dbTV, nWrites>>
    /\ peerUnchanged

\* runCorrection of the second session up to its first await.
peerRunCorrection ==
    /\ peer.pc = "idle"
    /\ peer.rec # NoRecord
    /\ MayWrite
    /\ nWrites' = nWrites + 1
    /\ peer' = [peer EXCEPT !.pc = "called"]
    /\ UNCHANGED dbTV
    /\ peerUnchanged

\* The service call of the second session returns a text: the version row is
\* inserted with the number of its own list and appended to that list.
peerCorrectionAnswered ==
    /\ peer.pc = "called"
    /\ dbTV' = IF RecordInStore(peer.rec)
               THEN Append(dbTV, [rec |-> peer.rec,
                                  num |-> NextVersionNumber(peer.len),
                                  text |-> GatewayTexts[ReplyIndex]])
               ELSE dbTV
    /\ peer' = [peer EXCEPT !.pc = "idle",
                            !.len = IF RecordInStore(peer.rec) THEN @ + 1 ELSE @]
    /\ UNCHANGED nWrites
    /\ peerUnchanged

\* Two sessions that select records and run corrections.
NextSessions ==
    \/ \E r \in RecordIds : selectRecord(r)
    \/ \E r \in RecordIds : LoadTV(r)
    \/ \E r \in RecordIds : LoadMV(r)
    \/ runCorrection
    \/ \E o \in GatewayOutcomes, b \in BOOLEAN : correctionAnswered(o, b)
    \/ correctionFinished
    \/ \E r \in RecordIds : peerLoadRecordData(r)
    \/ peerRunCorrection
    \/ peerCorrectionAnswered

SpecSessions == Init /\ [][NextSessions]_vars

(* ------------------- the assembly of an analysis request ---------------- *)
MaxHistory == 3

HistoryMessages == [role : {"user", "model"}, text : {"x", "y"}]

RECURSIVE SeqsUpTo(_, _)
SeqsUpTo(S, n) ==
    IF n = 0 THEN {<<>>}
    ELSE LET shorter == SeqsUpTo(S, n - 1)
         IN shorter \cup {Append(h, x) : h \in {q \in shorter : Len(q) = n - 1}, x \in S}

\* A call of the proxy's (or of the keyed service's) analyzeTranscript with
\* a payload drawn from small sets.
InitAssembly ==
    /\ InitExceptOp({"v3"}, {FALSE})
    /\ \E t \in {"", " ", "t"}, id \in {"", "A", "Z"}, name \in {"", "moduleName"},
          h \in SeqsUpTo(HistoryMessages, MaxHistory), k \in {"proxy", "keyed"} :
          op = [NoOp EXCEPT !.kind = k, !.pc = "received", !.transcript = t,
                            !.mod = id, !.input = name, !.msgs = h]

\* The analyzeTranscript branch of the proxy's handler: 400 for a blank
\* transcript, else the messages handed to callGatewayWithHistory.
proxyAnalyzeTranscript ==
    /\ op.kind = "proxy" /\ op.pc = "received"
    /\ IF IsBlank(op.transcript)
       THEN /\ op' = [op EXCEPT !.pc = "rejected"]
            /\ UNCHANGED request
       ELSE /\ op' = [op EXCEPT !.pc = "sent"]
            /\ request' = AnalysisRequest(op.transcript, op.mod, op.input, op.msgs)
    /\ UNCHANGED <<variant, direct, peer, analysed, storeVars, records, activeRecordId, step,
                   isLoading, errorMsg, bufferVars, tvVars, mvVars, chatInputs,
                   saveTimeout, loads, overtakes, nWrites, nEdits, nStoreFailures>>

\* role: m.role === 'user' ? 'user' : 'model'
KeyedRole(role) == IF role = "user" THEN "user" ELSE "model"

\* analyzeTranscript of the service that holds the API key: the system
\* instruction, then the contents (a single prompt for an empty history; else
\* the history, with the seed unshifted when its first role is model).
KeyedAnalysisRequest(transcript, modulePrompt, history) ==
    LET contents == [i \in 1..Len(history) |->
                        [role |-> KeyedRole(history[i].role),
                         content |-> <<history[i].text>>]]
        seed == SeedMessage(transcript, modulePrompt)
    IN <<SystemMessage("systemInstruction")>> \o
       (IF Len(history) = 0 THEN <<seed>>
        ELSE IF Len(contents) > 0 /\ contents[1].role = "model"
             THEN <<seed>> \o contents
             ELSE contents)

keyedAnalyzeTranscript ==
    /\ op.kind = "keyed" /\ op.pc = "received"
    /\ op' = [op EXCEPT !.pc = "sent"]
    /\ request' = KeyedAnalysisRequest(op.transcript, op.input, op.msgs)
    /\ UNCHANGED <<variant, direct, peer, analysed, storeVars, records, activeRecordId, step,
                   isLoading, errorMsg, bufferVars, tvVars, mvVars, chatInputs,
                   saveTimeout, loads, overtakes, nWrites, nEdits, nStoreFailures>>

NextAssembly == proxyAnalyzeTranscript \/ keyedAnalyzeTranscript

SpecAssembly == InitAssembly /\ [][NextAssembly]_vars

(* --------------------------- the gateway call --------------------------- *)
\* What happens to the fetch of callGateway / callGatewayWithHistory: the
\* timer aborts it, the network fails, the gateway answers with an error
\* status (with or without a message of its own), or it answers with a
\* completion that is empty or has a text.
GatewayCallOutcomes == {"timeout", "network", "status", "empty", "ok"}

\* errData?.error?.message of an error answer: none, or the gateway's text.
UpstreamMessages == {"", "upstreamMessage"}

\* The message of the error thrown for an aborted fetch.
TimeoutMessage == "requestTimedOut"

\* A mutation of GatewayError: the catch block throws the abort error on.
GatewayErrorRethrown(outcome, upstream) ==
    CASE outcome = "timeout" -> "signalAborted"
      [] outcome = "network" -> "fetchFailed"
      [] outcome = "status" -> (IF Truthy(upstream) THEN upstream ELSE "gatewayErrorStatus")
      [] outcome = "empty" -> "emptyResult"
      [] OTHER -> ""

\* The message of the error callGateway ends with (none for a text).
GatewayError(outcome, upstream) ==
    CASE outcome = "timeout" -> TimeoutMessage
      [] outcome = "network" -> "fetchFailed"
      [] outcome = "status" -> (IF Truthy(upstream) THEN upstream ELSE "gatewayErrorStatus")
      [] outcome = "empty" -> "emptyResult"
      [] OTHER -> ""

\* A call of the proxy's analyzeTranscript whose request goes to the gateway.
InitGateway ==
    /\ InitExceptOp({"v3"}, {FALSE})
    /\ \E t \in {"", " ", "t"}, id \in {"", "A", "Z"}, name \in {"", "moduleName"},
          h \in SeqsUpTo(HistoryMessages, MaxHistory) :
          op = [NoOp EXCEPT !.kind = "proxy", !.pc = "received", !.transcript = t,
                            !.mod = id, !.input = name, !.msgs = h]

\* callGatewayWithHistory returns or throws; the handler answers with the text
\* or with status 500 and the error's message.
gatewayCallEnds(outcome, upstream) ==
    /\ op.kind = "proxy" /\ op.pc = "sent"
    /\ outcome # "status" => upstream = ""
    /\ op' = [op EXCEPT !.pc = outcome,
                        !.result = IF outcome = "ok" THEN GatewayTexts[1]
                                   ELSE GatewayError(outcome, upstream)]
    /\ UNCHANGED <<variant, direct, request, peer, analysed, storeVars, records, activeRecordId,
                   step, isLoading, errorMsg, bufferVars, tvVars, mvVars, chatInputs,
                   saveTimeout, loads, overtakes, nWrites, nEdits, nStoreFailures>>

NextGateway ==
    \/ proxyAnalyzeTranscript
    \/ \E o \in GatewayCallOutcomes, u \in UpstreamMessages : gatewayCallEnds(o, u)

SpecGateway == InitGateway /\ [][NextGateway]_vars

(* ------------------------------ fairness -------------------------------- *)
\* Every awaited call returns: a select of loadRecordData is answered, the
\* gateway call and the inserts of an operation in flight return, and the
\* handler then runs to its end.
LoadAnswered == \E r \in RecordIds : LoadTV(r) \/ LoadMV(r)

OperationReturns ==
    \/ \E o \in GatewayOutcomes, b \in BOOLEAN : correctionAnswered(o, b)
    \/ correctionFinished
    \/ \E o \in GatewayOutcomes, b \in BOOLEAN, c \in BOOLEAN : analysisAnswered(o, b, c)
    \/ analysisFinished
    \/ \E o \in GatewayOutcomes, b \in BOOLEAN : chatAnswered(o, b)
    \/ chatFinished

CallsReturn == WF_vars(LoadAnswered) /\ WF_vars(OperationReturns)

\* The third variant's operations with the handlers also called directly.
InitFair == InitWith({"v3"}, {TRUE})

NextFair ==
    \/ \E r \in RecordIds : selectRecord(r)
    \/ \E r \in RecordIds : LoadTV(r)
    \/ \E r \in RecordIds : LoadMV(r)
    \/ \E m \in Modules, v \in ChatTexts : setChatInput(m, v)
    \/ runCorrection
    \/ \E o \in GatewayOutcomes, b \in BOOLEAN : correctionAnswered(o, b)
    \/ correctionFinished
    \/ \E m \in Modules : runInitialAnalysis(m)
    \/ \E o \in GatewayOutcomes, b \in BOOLEAN, c \in BOOLEAN : analysisAnswered(o, b, c)
    \/ analysisFinished
    \/ \E m \in Modules, b \in BOOLEAN : sendModuleChat(m, b)
    \/ \E o \in GatewayOutcomes, b \in BOOLEAN : chatAnswered(o, b)
    \/ chatFinished

SpecFair == InitFair /\ [][NextFair]_vars /\ CallsReturn

(* -------------------------------- claims ------------------------------- *)
\* The numbers of the stored rows of one record, in the order of the select.
RECURSIVE NumbersOf(_)
NumbersOf(rows) ==
    IF rows = <<>> THEN <<>> ELSE <<Head(rows).num>> \o NumbersOf(Tail(rows))

\* <<1, 2, ..., n>>
UpTo(n) == [i \in 1..n |-> i]

\* C1: for every record, the version numbers of its persisted transcript
\* versions are exactly 1..N, without gap or duplicate, whatever correction
\* runs (successful or failed), edits, renames, pointer changes and reloads
\* happened in the session.
C1_VersionMonotonicity ==
    \A r \in RecordIds :
        NumbersOf(StoreTVs(r)) = UpTo(Len(StoreTVs(r)))

\* The stored version numbers of module m of record r.
ModuleNumbers(r, m) == NumbersOf(SelectSeqByMod(StoreMVs(r), m))

ModuleNumbersContiguous ==
    \A r \in RecordIds, m \in Modules :
        ModuleNumbers(r, m) = UpTo(Len(ModuleNumbers(r, m)))

\* A step that adds a module version row of module m leaves the rows of the
\* other modules and the transcript version rows alone.
AnalysisFrame ==
    \A r \in RecordIds, m \in Modules :
        Len(ModuleNumbers(r, m)') > Len(ModuleNumbers(r, m)) =>
            /\ dbTV' = dbTV
            /\ \A q \in RecordIds, x \in Modules :
                  <<q, x>> # <<r, m>> => ModuleNumbers(q, x)' = ModuleNumbers(q, x)

\* C2: for every record the version numbers of each module are contiguous
\* from 1, and a run on one module changes neither the version numbers of
\* another module nor the transcript version numbers.
C2_ModuleSequencing == []ModuleNumbersContiguous /\ [][AnalysisFrame]_vars

\* C3: when the history is not empty and starts with a model message, the
\* request that was assembled has, right after the system message, a user
\* message that contains the transcript verbatim, and after it the whole
\* history in its order.
C3_SeedInvariant ==
    (op.pc = "sent" /\ Len(op.msgs) > 0 /\ op.msgs[1].role = "model") =>
        /\ Len(request) = 2 + Len(op.msgs)
        /\ request[1].role = "system"
        /\ request[2].role = "user"
        /\ \E i \in 1..Len(request[2].content) : request[2].content[i] = op.transcript
        /\ \A i \in 1..Len(op.msgs) :
              /\ request[2 + i].content = <<op.msgs[i].text>>
              /\ (request[2 + i].role = "user") <=> (op.msgs[i].role = "user")

\* A request assembled by the proxy from a history of three messages that
\* starts with a model message.
C3_Witness ==
    /\ op.kind = "proxy" /\ op.pc = "sent"
    /\ Len(op.msgs) = MaxHistory /\ op.msgs[1].role = "model"
    /\ Len(request) = 2 + MaxHistory

\* The service (the gateway client) has been invoked by runCorrection.
CorrectionInFlight == op.kind = "corr"

\* C4: runCorrection never invokes the service with a transcript buffer that
\* is empty or whitespace only, and a run that started from such a buffer
\* creates no transcript version.
C4_FailFastCorrection ==
    /\ [](CorrectionInFlight => ~IsBlank(op.transcript))
    /\ [][(CorrectionInFlight /\ IsBlank(op.transcript)) => dbTV' = dbTV]_vars

\* C5: a call of runInitialAnalysis while no transcript version is active
\* (the list is empty or the pointer matches none) starts no service call,
\* and module version rows are only created by an analysis that did start.
C5_FailFastAnalysis ==
    /\ [][(op.kind # "ana" /\ currentTranscriptVersion = <<>>) => op'.kind # "ana"]_vars
    /\ [][Len(dbMV') > Len(dbMV) => (op.kind = "ana" /\ op.pc = "called")]_vars

\* runInitialAnalysis has been called with no active transcript version and
\* has returned with its message.
C5_Witness ==
    /\ errorMsg = "needCorrection"
    /\ currentTranscriptVersion = <<>>
    /\ op.kind = "none" /\ ~isLoading

\* The messages of the row with this id among the rows (none: no such row).
StoredMessages(rows, id) ==
    IF \E i \in 1..Len(rows) : rows[i].id = id
    THEN LET i == CHOOSE j \in 1..Len(rows) : rows[j].id = id IN <<rows[i].msgs>>
    ELSE <<>>

\* The messages a map of the component holds for the version of module m
\* with this id.
ShownMessages(map, m, id) == StoredMessages(map[m], id)

\* The step on which a chat whose service call failed returns.
ChatFails == op.kind = "chat" /\ op.pc = "called" /\ op'.kind = "none"

\* C6: when the service call of a sendModuleChat that passed its guards
\* fails, then after the call the list of the version the chat was sent on
\* ends with the user's message, in memory and in the store, and no model
\* message was added: both lists are the list before the call followed by
\* the user's message.
C6_OptimisticAppend ==
    [][ChatFails =>
          /\ ShownMessages(moduleVersionsMap', op.mod, op.mvId) = <<op.msgs>>
          /\ StoredMessages(dbMV', op.mvId) = <<op.msgs>>]_vars

\* new is old with one row added at its end.
OneAdded(old, new) ==
    Len(new) = Len(old) + 1 /\ SubSeq(new, 1, Len(old)) = old

OneModelMessage(msgs) == Len(msgs) = 1 /\ msgs[1].role = "model"

\* The step on which a run of runInitialAnalysis gets its module version row
\* from the store, and the step on which it shows the version and returns.
AnalysisStores == op.kind = "ana" /\ op.pc = "called" /\ op'.pc = "stored"
AnalysisShows == op.kind = "ana" /\ op.pc = "stored" /\ op'.kind = "none"

\* What a run does to the store: one module version row with a new id is
\* added, with these messages, and no other row changes.
StoresFresh(okMsgs(_)) ==
    AnalysisStores =>
        /\ OneAdded(dbMV, dbMV')
        /\ dbMV'[Len(dbMV')].mod = op.mod
        /\ \A i \in 1..Len(dbMV) : dbMV[i].id # dbMV'[Len(dbMV')].id
        /\ okMsgs(dbMV'[Len(dbMV')].msgs)

\* What a run does to memory: one version holding one model message is added
\* to the list of its module, and no other version of any module changes.
ShowsFresh ==
    AnalysisShows =>
        /\ \A x \in Modules \ {op.mod} : moduleVersionsMap'[x] = moduleVersionsMap[x]
        /\ OneAdded(moduleVersionsMap[op.mod], moduleVersionsMap'[op.mod])
        /\ LET new == moduleVersionsMap'[op.mod][Len(moduleVersionsMap'[op.mod])]
           IN new.id = op.mvId /\ OneModelMessage(new.msgs)

StoredFirstMessages(msgs) ==
    IF op'.stored THEN OneModelMessage(msgs) ELSE msgs = <<>>

ChatSends == op.kind # "chat" /\ op'.kind = "chat"
ChatStores == op.kind = "chat" /\ op.pc = "called" /\ op'.pc = "stored"
ChatShows == op.kind = "chat" /\ op.pc = "stored" /\ op'.kind = "none"

\* The rows (versions) of new other than the one with this id are those of old, in place.
OthersKept(old, new, id) ==
    /\ Len(new) = Len(old)
    /\ \A i \in 1..Len(old) : old[i].id # id => new[i] = old[i]

\* The list a successful chat leaves: the list sent and the answer.
ChatResult(o, answer) == o.msgs \o <<[role |-> "model", text |-> answer]>>

\* C8: a sendModuleChat whose gateway call succeeds and whose inserts are
\* applied sends as history the list L of the active version of the module
\* followed by the user's message, and leaves that version with L, the
\* user's message and the model's answer, in the store and in memory, and
\* every other version of every module as it was.
C8_ChatAppends ==
    /\ [][ChatSends =>
            \E i \in 1..Len(moduleVersionsMap[op'.mod]) :
               /\ moduleVersionsMap[op'.mod][i].id = op'.mvId
               /\ moduleVersionsMap[op'.mod][i].num = ActiveVerNum(op'.mod)
               /\ op'.msgs = moduleVersionsMap[op'.mod][i].msgs
                               \o <<[role |-> "user", text |-> chatInputs[op'.mod]]>>]_vars
    /\ [][(ChatStores /\ op'.stored) =>
            /\ StoredMessages(dbMV', op.mvId) = <<ChatResult(op, op'.result)>>
            /\ OthersKept(dbMV, dbMV', op.mvId)]_vars
    /\ [][(ChatShows /\ op.stored) =>
            /\ ShownMessages(moduleVersionsMap', op.mod, op.mvId)
                  = <<ChatResult(op, op.result)>>
            /\ OthersKept(moduleVersionsMap[op.mod], moduleVersionsMap'[op.mod], op.mvId)
            /\ \A x \in Modules \ {op.mod} :
                  moduleVersionsMap'[x] = moduleVersionsMap[x]]_vars

\* C9: whenever another record becomes the active one (a click on a record,
\* a new record, or the deletion of the active record with records left),
\* the step is Input (1) afterwards, whatever it was before.
C9_StepResetOnSwitch ==
    [][(activeRecordId' # activeRecordId /\ activeRecordId' # NoRecord)
          => step' = 1]_vars

\* A step on which the user navigates by hand: the step changes to
\* Correction (2) or Insight (3) and no handler of an operation is at work
\* (the handlers that set the step also end their operation).
ManualNavigation == step' # step /\ step' \in {2, 3} /\ op' = op

\* C10: while the active record has no transcript version (the list the
\* component holds for it is empty), no manual navigation to Correction or
\* Insight is enabled; and in every reachable state whose step is Correction
\* or Insight the active record has at least one transcript version.
C10_NavigationGated ==
    /\ [][ManualNavigation => Len(transcriptVersions) > 0]_vars
    /\ []((activeRecordId # NoRecord /\ step \in {2, 3}) => Len(transcriptVersions) > 0)

\* The steps on which a run of runCorrection returns: after a failed service
\* call, and after the insert.
CorrectionFails == op.kind = "corr" /\ op.pc = "called" /\ op'.kind = "none"
CorrectionReturns == op.kind = "corr" /\ op.pc = "stored" /\ op'.kind = "none"

\* C11: a correction run moves the step to Correction (2) only when it
\* succeeded: the service returned a text, the version row was stored and the
\* version was added to the list.  A run that fails at the service or at the
\* insert leaves the step as it was.
C11_StepAfterCorrection ==
    /\ [][CorrectionFails => step' = step]_vars
    /\ [][(CorrectionReturns /\ ~op.stored) => step' = step]_vars
    /\ [][(CorrectionReturns /\ op.stored) =>
            /\ step' = 2
            /\ Len(transcriptVersions') = Len(transcriptVersions) + 1
            /\ transcriptVersions'[Len(transcriptVersions')].text = op.result]_vars

\* The outcomes of the completion service that are failures: a transport
\* error or timeout, an empty completion, a blank one.
FailingOutcomes == {"fail", "empty", "blank"}

\* Nothing of the versions changes: no row of the store, no list, map or
\* pointer in memory, and not the step.
NoPartialState ==
    /\ dbTV' = dbTV /\ dbMV' = dbMV
    /\ transcriptVersions' = transcriptVersions
    /\ activeTranscriptVersion' = activeTranscriptVersion
    /\ moduleVersionsMap' = moduleVersionsMap
    /\ activeModuleVersion' = activeModuleVersion
    /\ step' = step

\* C12: when the service call of runCorrection or of runInitialAnalysis fails
\* (transport error, timeout, empty or blank result), the run inserts no
\* transcript version, module version or chat message and leaves the version
\* list, the module map, the active pointers and the step as they were; the
\* run is over with that step.
C12_NoPartialState ==
    /\ [][\A o \in FailingOutcomes, b \in BOOLEAN :
            correctionAnswered(o, b) => (NoPartialState /\ op'.kind = "none")]_vars
    /\ [][\A o \in FailingOutcomes, b \in BOOLEAN, c \in BOOLEAN :
            analysisAnswered(o, b, c) => (NoPartialState /\ op'.kind = "none")]_vars
    /\ [][(op.kind = "none" /\ op'.kind \in {"corr", "ana"}) => NoPartialState]_vars

\* No version of the list has a blank text.
NoBlankText(tvs) == \A i \in 1..Len(tvs) : ~IsBlank(tvs[i].text)

\* No model message of the versions has a blank text.
NoBlankModelMessage(versions) ==
    \A i \in 1..Len(versions) : \A j \in 1..Len(versions[i].msgs) :
        versions[i].msgs[j].role = "model" => ~IsBlank(versions[i].msgs[j].text)

\* C13: an empty or blank completion is never accepted as a result: no
\* transcript version with a blank corrected text and no model message with
\* a blank text is in the store or in the lists in memory.
C13_NoBlankResult ==
    /\ NoBlankText(dbTV) /\ NoBlankText(transcriptVersions)
    /\ NoBlankModelMessage(dbMV)
    /\ \A m \in Modules : NoBlankModelMessage(moduleVersionsMap[m])

\* The module has a version in memory with the number of its active pointer.
HasActiveModuleVersion(m) ==
    \E i \in 1..Len(moduleVersionsMap[m]) :
        moduleVersionsMap[m][i].num = ActiveVerNum(m)

\* The cases in which sendModuleChat must do nothing.
ChatMustReject(m) ==
    \/ IsBlank(chatInputs[m])
    \/ isLoading
    \/ currentTranscriptVersion = <<>>
    \/ ~HasActiveModuleVersion(m)

\* C14: a call of sendModuleChat whose input is empty or blank, or made
\* while an operation is in flight, or with no active transcript version, or
\* for a module without a version at its active pointer, does nothing: no
\* service call is started, no row is inserted, and the message lists, the
\* chat inputs, the loading flag and the error message are as before.
C14_ChatRejected ==
    [][\A m \in Modules, b \in BOOLEAN :
          (ChatMustReject(m) /\ sendModuleChat(m, b)) =>
              UNCHANGED <<op, storeVars, moduleVersionsMap, activeModuleVersion,
                          chatInputs, isLoading, errorMsg, tvVars, step>>]_vars

\* A chat can be sent (Enter in the input) with a message typed while an
\* operation is in flight.
C14_Witness ==
    \E m \in Modules :
        /\ ChatInvocable(m) /\ isLoading
        /\ ~IsBlank(chatInputs[m]) /\ HasActiveModuleVersion(m)
        /\ currentTranscriptVersion # <<>>

\* A step of handleTranscriptChange or handleMetadataChange.
EditStep == nEdits' = nEdits + 1

\* A step that writes a field of a record to the store.
FieldWritten == DOMAIN dbRecords' = DOMAIN dbRecords /\ dbRecords' # dbRecords

\* C15: an edit of the transcript or of the metadata shows the new value in
\* the local buffer at once and writes nothing to the store itself: it
\* replaces the pending write, if there is one, by a write of the new value,
\* so of a burst of edits only the last one is written, once, when the timer
\* fires.
C15_Debounce ==
    /\ [][EditStep =>
            /\ dbRecords' = dbRecords
            /\ saveTimeout' # NoSave
            /\ saveTimeout'.rec = activeRecordId
            /\ IF saveTimeout'.field = "raw"
               THEN localTranscript' = saveTimeout'.value
               ELSE localMetadata' = saveTimeout'.value]_vars
    /\ [][FieldWritten =>
            /\ saveTimeout # NoSave /\ saveTimeout' = NoSave
            /\ dbRecords' = WriteRecordField(dbRecords, saveTimeout.rec,
                                             saveTimeout.field, saveTimeout.value)]_vars

\* The highest number among the stored transcript versions of a record, and
\* among the stored versions of a module of a record (0: there is none).
HighestOf(nums) == IF nums = {} THEN 0 ELSE CHOOSE n \in nums : \A k \in nums : k <= n

HighestTV(r) == HighestOf({dbTV[i].num : i \in {j \in 1..Len(dbTV) : dbTV[j].rec = r}})

HighestMV(r, m) ==
    HighestOf({dbMV[i].num :
                 i \in {j \in 1..Len(dbMV) : dbMV[j].rec = r /\ dbMV[j].mod = m}})

\* C16: when the selects of loadRecordData for a record are answered, the
\* active transcript version is the highest stored version number of the
\* record (1 when it has none), the list holds all its versions, and the
\* active version of every module that has a version is the highest version
\* number of that module.
C16_ActiveIsLatest ==
    /\ [][\A r \in RecordIds : LoadTV(r) =>
            /\ activeTranscriptVersion' =
                  (IF HighestTV(r) = 0 THEN 1 ELSE HighestTV(r))
            /\ Len(transcriptVersions') = Len(StoreTVs(r))]_vars
    /\ [][\A r \in RecordIds : LoadMV(r) =>
            \A m \in Modules :
               HighestMV(r, m) > 0 =>
                  /\ activeModuleVersion'[m] = HighestMV(r, m)
                  /\ Len(moduleVersionsMap'[m]) > 0]_vars

\* The active record has been loaded with two transcript versions in the
\* store, and the second is the active one.
C16_Witness ==
    /\ <<activeRecordId, "mv">> \in loads
    /\ HighestTV(activeRecordId) = 2
    /\ Len(transcriptVersions) = 2 /\ activeTranscriptVersion = 2

(* ---------------------------- claim C17 ---------------------------------- *)
\* A step that starts an operation (each start takes one gateway call).
OperationStarts == nWrites' = nWrites + 1

\* C17: runCorrection, runInitialAnalysis and sendModuleChat start only while
\* isLoading is false and no operation is in flight; the start sets isLoading
\* and puts exactly that operation in flight, and while an operation is in
\* flight isLoading stays true, so at most one operation (and one gateway
\* call) is outstanding.
C17_OneOperationAtATime ==
    /\ [][OperationStarts =>
            /\ ~isLoading /\ op.kind = "none"
            /\ isLoading' /\ op'.kind \in {"corr", "ana", "chat"}
            /\ op'.pc = "called"]_vars
    /\ [][(op.kind # "none" /\ op'.kind # "none") =>
            /\ op'.kind = op.kind /\ op'.rec = op.rec /\ nWrites' = nWrites]_vars
    /\ [](op.kind # "none" => isLoading)

\* A correction is in flight while the page still takes clicks, the transcript
\* is there and a further gateway call is within the budget: only the disabled
\* buttons keep a second correction from starting.
C17_Witness ==
    /\ isLoading /\ op.kind = "corr" /\ op.pc = "called"
    /\ CanClick /\ ActiveRecordShown /\ step \in {1, 2}
    /\ ~IsBlank(localTranscript) /\ MayWrite /\ MayStep

(* ---------------------------- claim C18 ---------------------------------- *)
\* The stored transcript versions of a record, in the order of their creation.
CreatedTVs(rows, r) == SelectSeqBy(rows, r)

KeepsVersions(old, new) ==
    /\ Len(old) <= Len(new)
    /\ \A i \in 1..Len(old) : new[i] = old[i]

\* No step changes the number or the text of a stored version of a record that
\* stays in the store.
StoredVersionsKept ==
    \A r \in DOMAIN dbRecords \cap DOMAIN dbRecords' :
        KeepsVersions(CreatedTVs(dbTV, r), CreatedTVs(dbTV', r))

\* The pointer shows a version, and every stored version of the active record
\* with the pointer's number has the shown text.
PointerShowsStored(tvs, ptr, rows) ==
    LET ctv == FindTV(tvs, ptr)
    IN /\ ctv # <<>>
       /\ \A i \in 1..Len(rows) : rows[i].num = ptr => rows[i].text = ctv[1].text

PointerFrame ==
    UNCHANGED <<storeVars, records, activeRecordId, step, isLoading, errorMsg,
                bufferVars, transcriptVersions, mvVars, chatInputs, saveTimeout,
                op, loads>>

C18_StoreImmutable == [][StoredVersionsKept]_vars

C18_PointerShows ==
    [][\A v \in 1..(MaxWrites + 1) : setActiveTranscriptVersion(v) =>
            PointerShowsStored(transcriptVersions', activeTranscriptVersion',
                               CreatedTVs(dbTV', activeRecordId'))]_vars

C18_PointerFrame ==
    [][\A v \in 1..(MaxWrites + 1) : setActiveTranscriptVersion(v) => PointerFrame]_vars

\* C18: a stored transcript version keeps its number and its text under every
\* later step; after the pointer is set to k the shown version has the text
\* stored for version k of the active record; setting the pointer changes
\* nothing but the pointer.
C18_VersionImmutable ==
    /\ C18_StoreImmutable
    /\ C18_PointerShows
    /\ C18_PointerFrame

(* ---------------------------- claim C19 ---------------------------------- *)
\* C19: with two sessions running corrections in any interleaving, the stored
\* transcript versions of every record are numbered 1, 2, 3, ... in the order
\* of their creation: distinct and contiguous from 1.
C19_StoreNumbersContiguous ==
    \A r \in DOMAIN dbRecords :
        LET rows == CreatedTVs(dbTV, r)
        IN \A i \in 1..Len(rows) : rows[i].num = i

(* ---------------------------- claim C20 ---------------------------------- *)
\* Every row refers to a record of the store (a chat message is held by the
\* module version row it refers to).
NoOrphanRows(rows) == \A i \in 1..Len(rows) : rows[i].rec \in DOMAIN dbRecords

\* C20: deleting a record removes it and every transcript version, module
\* version and chat message of it from the store, and at no time does a version
\* row refer to a record that is not in the store.
C20_DeleteCascades ==
    /\ [][\A r \in RecordIds : deleteRecord(r) =>
            /\ r \notin DOMAIN dbRecords'
            /\ CreatedTVs(dbTV', r) = <<>>
            /\ SelectSeqBy(dbMV', r) = <<>>]_vars
    /\ [](NoOrphanRows(dbTV) /\ NoOrphanRows(dbMV))

\* The record that had a transcript version and a module version with a
\* message has been deleted.
C20_Witness ==
    /\ nextMvId = 2 /\ 1 \notin DOMAIN dbRecords
    /\ dbTV = <<>> /\ dbMV = <<>>

(* ---------------------------- claim C21 ---------------------------------- *)
GatewayFailures == GatewayCallOutcomes \ {"ok"}

\* C21: a gateway call that the timer aborted ends with the timeout message,
\* and a call that failed in any other way (error status, empty completion,
\* network error) ends with a message that is not the timeout message.
C21_TimeoutMessageDistinct ==
    (op.kind = "proxy" /\ op.pc \in GatewayFailures) =>
        (op.result = TimeoutMessage <=> op.pc = "timeout")

\* A call with a history was cancelled by the timer.
C21_Witness ==
    /\ op.kind = "proxy" /\ op.pc = "timeout"
    /\ Len(op.msgs) = MaxHistory /\ op.result = TimeoutMessage

(* ---------------------------- claim C22 ---------------------------------- *)
\* The roles alternate user, assistant, user, ..., from a user turn to a user
\* turn.
RolesAlternate(msgs) ==
    /\ Len(msgs) % 2 = 1
    /\ \A i \in 1..Len(msgs) :
          msgs[i].role = (IF i % 2 = 1 THEN "user" ELSE "assistant")

\* C22: the request of every chat in flight has, after its system message, a
\* message list that strictly alternates user and assistant roles and starts
\* and ends with a user turn.
C22_TurnsAlternate ==
    (op.kind = "chat" /\ op.pc = "called") => RolesAlternate(Tail(RequestOf(op)))

(* ---------------------------- claim C23 ---------------------------------- *)
StartsWithModel(msgs) == msgs # <<>> /\ msgs[1].role = "model"

\* C23: every module version, in the map in memory and in the store (as a
\* select of the record returns it), has a message list that is not empty and
\* starts with a model message.
C23_FirstMessageIsModel ==
    /\ \A i \in 1..Len(dbMV) : StartsWithModel(dbMV[i].msgs)
    /\ \A m \in Modules : \A i \in 1..Len(moduleVersionsMap[m]) :
          StartsWithModel(moduleVersionsMap[m][i].msgs)

(* ---------------------------- claim C24 ---------------------------------- *)
\* No load is awaited, no operation is in flight, no write is pending and the
\* active record is in the store.
Settled ==
    /\ loads = {} /\ op.kind = "none" /\ saveTimeout = NoSave
    /\ activeRecordId \in DOMAIN dbRecords

\* The lists and the edit buffers in memory are those of the active record in
\* the store.
MirrorsActiveRecord ==
    LET rows == StoreTVs(activeRecordId)
    IN /\ transcriptVersions =
             [i \in 1..Len(rows) |-> [num |-> rows[i].num, text |-> rows[i].text]]
       /\ \A m \in Modules :
             moduleVersionsMap[m] = LoadedVersions(StoreMVs(activeRecordId), m)
       /\ localTranscript = dbRecords[activeRecordId].raw
       /\ localMetadata = dbRecords[activeRecordId].meta

\* C24: when the last outstanding load of a record switch completes, the
\* version list, the module map and the edit buffers in memory are those of
\* the selected record in the store.
C24_MirrorOnSwitch == [][(loads # {} /\ Settled') => MirrorsActiveRecord']_vars

(* ---------------------------- claim C25 ---------------------------------- *)
\* C25: every started runCorrection, runInitialAnalysis or sendModuleChat
\* eventually ends, with isLoading false and the page still there, so that the
\* action can be invoked again.
C25_OperationEnds == (op.kind # "none") ~> (op.kind = "none" /\ ~isLoading /\ ~Crashed)

(* ---------------------------- claim C26 ---------------------------------- *)
\* Every module version of old that new still holds (by its id) has in new a
\* message list that starts with its list in old.
MessagesKept(old, new) ==
    \A i \in 1..Len(old) : \A j \in 1..Len(new) :
        new[j].id = old[i].id => KeepsVersions(old[i].msgs, new[j].msgs)

C26_StoreAppendOnly == [][MessagesKept(dbMV, dbMV')]_vars

C26_MemoryAppendOnly ==
    [][\A m \in Modules : MessagesKept(moduleVersionsMap[m], moduleVersionsMap'[m])]_vars

\* C26: chat messages are append-only: across every step the message list of
\* a module version that stays, in the store and in the map in memory, keeps
\* the messages it had as a prefix.
C26_AppendOnly == C26_StoreAppendOnly /\ C26_MemoryAppendOnly

(* ---------------------------- claim C27 ---------------------------------- *)
\* An edit of a field of the active record, or a rename of a record.
EditOrRename ==
    \/ \E v \in RawTexts : handleTranscriptChange(v)
    \/ \E v \in MetaTexts : handleMetadataChange(v)
    \/ \E r \in RecordIds : renameRecord(r)

\* The version lists in memory are those of the active record in the store.
ListsMirrorStore ==
    LET rows == StoreTVs(activeRecordId)
    IN /\ transcriptVersions =
             [i \in 1..Len(rows) |-> [num |-> rows[i].num, text |-> rows[i].text]]
       /\ \A m \in Modules :
             moduleVersionsMap[m] = LoadedVersions(StoreMVs(activeRecordId), m)

\* The pointers are what a load of the record data sets them to.
PointersAsLoaded ==
    /\ activeTranscriptVersion = LatestNumber(transcriptVersions)
    /\ \A m \in Modules :
          activeModuleVersion[m] =
              (IF Len(moduleVersionsMap[m]) > 0
               THEN moduleVersionsMap[m][Len(moduleVersionsMap[m])].num ELSE 0)

\* The step leaves the version lists, the pointers and the step as they are.
C27_HandlerFrame == [][EditOrRename => UNCHANGED <<tvVars, mvVars, step>>]_vars

\* With the lists in memory as in the store and no load awaited, the step
\* either sets off no load of the record data or the pointers are those the
\* load will set.
C27_EffectFrame ==
    [][(EditOrRename /\ loads = {} /\ op.kind = "none" /\ ListsMirrorStore)
          => (loads' = loads \/ PointersAsLoaded)]_vars

\* C27: an edit of a metadata field or of the raw transcript, or a rename,
\* leaves the transcript version list, the module map, their active pointers
\* and the step unchanged, by the handler and by the load of the record data
\* that the changed records list sets off.
C27_EditFrame == C27_HandlerFrame /\ C27_EffectFrame

(* ---------------------------- claim C28 ---------------------------------- *)
\* The value of a field of a record of the store.
FieldOf(db, rec, field) == IF field = "raw" THEN db[rec].raw ELSE db[rec].meta

\* C28: no edit is lost by the debounce: a scheduled write leaves the timer
\* only by being written to the store, or by being replaced by a later write
\* to the same field of the same record (or with its record deleted), so that
\* once all writes have fired the store holds the last value of every field.
C28_NoEditLost ==
    [][(saveTimeout # NoSave /\ saveTimeout' # saveTimeout
        /\ saveTimeout.rec \in DOMAIN dbRecords') =>
          \/ FieldOf(dbRecords', saveTimeout.rec, saveTimeout.field) = saveTimeout.value
          \/ /\ saveTimeout' # NoSave
             /\ saveTimeout'.rec = saveTimeout.rec
             /\ saveTimeout'.field = saveTimeout.field]_vars

(* ---------------------------- claim C29 ---------------------------------- *)
\* C29: the seed user message of the request of a chat in flight carries the
\* transcript that the analysis which made the chat's module version sent.
C29_SeedTranscriptOfAnalysis ==
    (op.kind = "chat" /\ op.pc = "called" /\ op.mvId \in DOMAIN analysed
     /\ ProxySeedNeeded(op.msgs)) =>
        RequestOf(op)[2] =
            SeedMessage(analysed[op.mvId],
                        ModuleTask(SentModuleId(variant, op.mod),
                                   SentModuleName(variant, op.mod)))

(* ---------------------------- claim C30 ---------------------------------- *)
\* The service call of the operation in flight returns.
OperationAnswered ==
    \/ \E o \in GatewayOutcomes, b \in BOOLEAN : correctionAnswered(o, b)
    \/ \E o \in GatewayOutcomes, b \in BOOLEAN, c \in BOOLEAN : analysisAnswered(o, b, c)
    \/ \E o \in GatewayOutcomes, b \in BOOLEAN : chatAnswered(o, b)

\* The operation in flight makes its state updates and ends.
OperationFinished == correctionFinished \/ analysisFinished \/ chatFinished

\* The rows of the two version tables that belong to record r.
RowsOf(tv, mv, r) == <<SelectSeqBy(tv, r), SelectSeqBy(mv, r)>>

\* C30 (the result in the store): the result of an operation is stored under
\* the record that was active when the operation started: the operation
\* remembers that record, and its answer changes the rows of no other record.
C30_StoredUnderStartRecord ==
    [][/\ (op.kind = "none" /\ op'.kind # "none") => op'.rec = activeRecordId
       /\ OperationAnswered =>
             \A r \in RecordIds \ {op.rec} :
                 RowsOf(dbTV', dbMV', r) = RowsOf(dbTV, dbMV, r)]_vars

\* C30 (the result in memory): an operation that ends while a record other
\* than the one it started under is the active one adds nothing to the version
\* list and the module map in memory.
C30_NotAddedToOther ==
    [][(OperationFinished /\ op.rec # activeRecordId) =>
           UNCHANGED <<transcriptVersions, moduleVersionsMap>>]_vars

\* Once the loads are answered, every version of the lists in memory is a
\* stored version of the active record.
ListsOfActiveRecord ==
    loads = {} =>
    /\ \A i \in 1..Len(transcriptVersions) :
          \E j \in 1..Len(dbTV) :
              /\ dbTV[j].rec = activeRecordId
              /\ dbTV[j].num = transcriptVersions[i].num
              /\ dbTV[j].text = transcriptVersions[i].text
    /\ \A m \in Modules : \A i \in 1..Len(moduleVersionsMap[m]) :
          \E j \in 1..Len(dbMV) :
              /\ dbMV[j].rec = activeRecordId
              /\ dbMV[j].id = moduleVersionsMap[m][i].id

\* C30 (the lists): the lists in memory never hold a version of a record other
\* than the active one.
C30_ListsOfActiveRecord == []ListsOfActiveRecord

\* C30 (the whole statement): when another record is selected while runCorrection, an analysis or
\* sendModuleChat is in flight, the result is stored under the record that
\* was active when the operation started and is not added to the lists in
\* memory of the newly selected record; the lists in memory never hold a
\* version of a record other than the active one.
C30_SwitchDuringOperation ==
    /\ C30_StoredUnderStartRecord
    /\ C30_NotAddedToOther
    /\ C30_ListsOfActiveRecord

====
